---- MODULE Spec2Model ----
(***************************************************************************)
(* Vertical master/slave tiling of cortile: the placement pass             *)
(* VerticalLayout.Do, its inverse VerticalLayout.UpdateProportions         *)
(* (layout/vertical.go) and the move/resize lock of store.Client           *)
(* (store/client.go).                                                      *)
(*                                                                         *)
(* float64 proportions are modelled as exact rationals <<n, d>> in lowest  *)
(* terms with d > 0; math.Round is round-half-away-from-zero on them.      *)
(* Vectors are TLA+ sequences; At(v, i) reads Go's 0-based v[i].           *)
(***************************************************************************)
EXTENDS Integers, Sequences, FiniteSets, TLC

\* ------------------------------------------------------------------ bounds

MaxClients == 2
MaxAllowed == 2
MaxUpdates == 1

\* ------------------------------------------------------- rational numbers

Abs(a) == IF a < 0 THEN -a ELSE a

RECURSIVE GCD(_, _)
GCD(a, b) == IF b = 0 THEN a ELSE GCD(b, a % b)

\* n/d in lowest terms, d > 0
Q(n, d) ==
    LET s == IF d < 0 THEN -1 ELSE 1
        g == GCD(Abs(n), Abs(d))
    IN  <<(s * n) \div g, (s * d) \div g>>

QAdd(p, q) == Q(p[1] * q[2] + q[1] * p[2], p[2] * q[2])
QSub(p, q) == Q(p[1] * q[2] - q[1] * p[2], p[2] * q[2])
QLt(p, q) == p[1] * q[2] < q[1] * p[2]
QLe(p, q) == p[1] * q[2] <= q[1] * p[2]
QAbs(p) == <<Abs(p[1]), p[2]>>
QOne == <<1, 1>>

RECURSIVE QSum(_)
QSum(v) == IF v = <<>> THEN <<0, 1>> ELSE QAdd(Head(v), QSum(Tail(v)))

\* int(math.Round(float64(k) * p)): round to nearest, halves away from zero
RoundMul(k, p) ==
    LET n == k * p[1]
        d == p[2]
    IN  IF n >= 0 THEN (2 * n + d) \div (2 * d)
                  ELSE -((2 * (-n) + d) \div (2 * d))

\* Go's a % b (remainder truncated towards zero), b > 0
GoMod(a, b) == IF a >= 0 THEN a % b ELSE -((-a) % b)

MinInt(a, b) == IF a < b THEN a ELSE b

At(v, i) == v[i + 1]

\* ----------------------------------------------------------- environment

\* the sessions: common.DesktopDimensions() as (dx, dy, dw, dh), with
\* common.Config.WindowGapSize and common.Config.Proportion
Sessions ==
    { [desk |-> <<3, 2, 10, 12>>, gap |-> 1, proportion |-> Q(3, 5)],
      [desk |-> <<0, 0, 12, 11>>, gap |-> 0, proportion |-> Q(0, 1)] }

\* minimum positive floor of a proportion entry
ProportionMin == Q(1, 10)

ClientIds == 1 .. MaxClients

LayoutNames == {"vertical-left", "vertical-right"}

\* ------------------------------------------------------------------ state

VARIABLES
    Name,         \* VerticalLayout.Name
    desk,         \* common.DesktopDimensions()
    gap,          \* common.Config.WindowGapSize
    Masters,      \* Manager.Masters: [Clients, Allowed]
    Slaves,       \* Manager.Slaves: [Clients, Allowed]
    Proportions,  \* Manager.Proportions: [MasterSlave, MasterMaster, SlaveSlave]
    calls,        \* requests of the latest Do() pass, in issue order
    prevCalls,    \* requests of the Do() pass before it, <<>> after any change
    last,         \* the latest UpdateProportions call, with d before and after it
    nUpd,         \* number of UpdateProportions calls so far
    Locked,       \* Client.Locked
    Latest,       \* Client.Latest
    Original,     \* Client.Original
    Cached,       \* Client.Cached
    xwin,         \* the window as the X server holds it
    reqs,         \* move/resize requests the client has sent to the X server
    Config,       \* common.Config: WindowDecoration, Keys["decoration"]
    op            \* the latest Client operation

layoutVars == <<Name, desk, gap, Masters, Slaves, Proportions, calls, prevCalls, last, nUpd>>
clientVars == <<Locked, Latest, Original, Cached, xwin, reqs, Config, op>>
vars == <<Name, desk, gap, Masters, Slaves, Proportions, calls, prevCalls, last, nUpd,
          Locked, Latest, Original, Cached, xwin, reqs, Config, op>>

\* ---------------------------------------------------------------- manager

\* n equal entries summing to 1
calcProportions(n) == [i \in 1 .. n |-> Q(1, n)]

\* variant of SetProportions that writes entry i and forgets entry j
SetProportionsNoComplement(ps, pi, i, j) ==
    IF i = j \/ i < 0 \/ i >= Len(ps) \/ j < 0 \/ j >= Len(ps) THEN ps
    ELSE IF QLt(pi, ProportionMin) THEN ps
         ELSE [ps EXCEPT ![i + 1] = pi]

\* Manager.SetProportions(ps, pi, i, j): ps[i] = pi and ps[j] takes the
\* difference; nothing changes when i = j, an index is outside ps, or an
\* entry would fall below the floor
SetProportions(ps, pi, i, j) ==
    IF i = j \/ i < 0 \/ i >= Len(ps) \/ j < 0 \/ j >= Len(ps)
    THEN ps
    ELSE LET pj == QSub(QAdd(At(ps, j), At(ps, i)), pi)
         IN  IF QLt(pi, ProportionMin) \/ QLt(pj, ProportionMin)
             THEN ps
             ELSE [ps EXCEPT ![i + 1] = pi, ![j + 1] = pj]

\* store.CreateManager(deskNum) with the configured Allowed counts
CreateManager(mAllowed, sAllowed) ==
    [ Masters     |-> [Clients |-> <<>>, Allowed |-> mAllowed],
      Slaves      |-> [Clients |-> <<>>, Allowed |-> sAllowed],
      Proportions |-> [ MasterSlave  |-> calcProportions(2),
                        MasterMaster |-> calcProportions(mAllowed),
                        SlaveSlave   |-> calcProportions(sAllowed) ] ]

InList(list, c) == \E k \in 1 .. Len(list) : list[k] = c

\* Manager.Index(list, c): 0-based position, -1 when absent
Index(list, c) ==
    IF InList(list, c)
    THEN (CHOOSE k \in 1 .. Len(list) : list[k] = c) - 1
    ELSE -1

\* Manager.IsMaster(c)
IsMaster(c) == InList(Masters.Clients, c)

\* Manager.Clients(): masters, then slaves
Clients == Masters.Clients \o Slaves.Clients

Tracked(c) == InList(Clients, c)

RemoveFrom(list, c) == SelectSeq(list, LAMBDA e : e # c)

\* ----------------------------------------------------------------- layouts

CreateVerticalLeftLayout(mAllowed, sAllowed, proportion) ==
    LET manager == CreateManager(mAllowed, sAllowed)
    IN  [ manager EXCEPT !.Proportions.MasterSlave =
              SetProportions(manager.Proportions.MasterSlave, proportion, 0, 1) ]
        @@ [Name |-> "vertical-left"]

CreateVerticalRightLayout(mAllowed, sAllowed, proportion) ==
    LET manager == CreateManager(mAllowed, sAllowed)
    IN  [ manager EXCEPT !.Proportions.MasterSlave =
              SetProportions(manager.Proportions.MasterSlave, proportion, 1, 0) ]
        @@ [Name |-> "vertical-right"]

\* Client.MoveResize(x, y, w, h) as one request on the window of client c
MoveResize(c, x, y, w, h) ==
    [call |-> "MoveResize", c |-> c, x |-> x, y |-> y, w |-> w, h |-> h]

\* common.X.Conn().Sync()
Sync == [call |-> "Sync"]

\* variant of msizeOf that forgets the Allowed cap
msizeOfUncapped(M) == Len(M.Clients)

msizeOf(M) == MinInt(Len(M.Clients), M.Allowed)

\* variant of DoColumns that starts the slave column one gap further right
DoColumnsGapBetween(name, M, S, P, dsk, g) ==
    LET dx == dsk[1]
        dw == dsk[3]
        mmax == M.Allowed
        csize == Len(M.Clients) + Len(S.Clients)
        mx == dx
        mw == RoundMul(dw, At(P.MasterSlave, 0))
        sx == mx + mw + g
        sw == dw - mw
    IN  IF name = "vertical-right" /\ csize > mmax
        THEN [mx |-> sx, mw |-> sw, sx |-> mx + g, sw |-> mw]
        ELSE [mx |-> mx, mw |-> mw, sx |-> sx, sw |-> sw]

\* Do(): the two columns (mx, mw, sx, sw) before the per-column loops
DoColumns(name, M, S, P, dsk, g) ==
    LET dx == dsk[1]
        dw == dsk[3]
        mmax == M.Allowed
        csize == Len(M.Clients) + Len(S.Clients)
        mx == dx
        mw == RoundMul(dw, At(P.MasterSlave, 0))
        sx == mx + mw
        sw == dw - mw
    IN  IF name = "vertical-right" /\ csize > mmax
        THEN [mx |-> sx, mw |-> sw, sx |-> mx + g, sw |-> mw]
        ELSE [mx |-> mx, mw |-> mw, sx |-> sx, sw |-> sw]

\* Do(): the loop over l.Masters.Clients from index i with running offset my
RECURSIVE MasterLoop(_, _, _, _, _, _, _, _)
MasterLoop(i, my, M, P, dsk, g, mx, mw) ==
    IF i >= Len(M.Clients)
    THEN <<>>
    ELSE LET dy == dsk[2]
             dh == dsk[4]
             mmax == M.Allowed
             msize == msizeOf(M)
             my1 == IF GoMod(i, mmax) = 0 THEN dy + g ELSE my
             mp == At(P.MasterMaster, GoMod(i, msize))
             mh == RoundMul(dh - (msize + 1) * g, mp)
         IN  <<MoveResize(At(M.Clients, i), mx + g, my1, mw - 2 * g, mh)>>
             \o MasterLoop(i + 1, my1 + mh + g, M, P, dsk, g, mx, mw)

\* Do(): the loop over l.Slaves.Clients from index i with running offset sy
RECURSIVE SlaveLoop(_, _, _, _, _, _, _, _)

\* variant of SlaveLoop that starts the column once and never wraps
SlaveLoopNoWrap(i, sy, S, P, dsk, g, sx, sw) ==
    IF i >= Len(S.Clients)
    THEN <<>>
    ELSE LET dy == dsk[2]
             dh == dsk[4]
             ssize == msizeOf(S)
             sy1 == IF i = 0 THEN dy + g ELSE sy
             sp == At(P.SlaveSlave, GoMod(i, ssize))
             sh == RoundMul(dh - (ssize + 1) * g, sp)
         IN  <<MoveResize(At(S.Clients, i), sx, sy1, sw - g, sh)>>
             \o SlaveLoop(i + 1, sy1 + sh + g, S, P, dsk, g, sx, sw)

SlaveLoop(i, sy, S, P, dsk, g, sx, sw) ==
    IF i >= Len(S.Clients)
    THEN <<>>
    ELSE LET dy == dsk[2]
             dh == dsk[4]
             smax == S.Allowed
             ssize == msizeOf(S)
             sy1 == IF GoMod(i, smax) = 0 THEN dy + g ELSE sy
             sp == At(P.SlaveSlave, GoMod(i, ssize))
             sh == RoundMul(dh - (ssize + 1) * g, sp)
         IN  <<MoveResize(At(S.Clients, i), sx, sy1, sw - g, sh)>>
             \o SlaveLoop(i + 1, sy1 + sh + g, S, P, dsk, g, sx, sw)

\* variant of DoCalls that synchronizes after each column
DoCallsSyncPerColumn(name, M, S, P, dsk, g) ==
    LET dx == dsk[1]
        dw == dsk[3]
        msize == msizeOf(M)
        ssize == msizeOf(S)
        col == DoColumns(name, M, S, P, dsk, g)
        mw == IF ssize = 0 THEN dw ELSE col.mw
        sx == IF msize = 0 THEN dx + g ELSE col.sx
        sw == IF msize = 0 THEN dw - g ELSE col.sw
        master == IF msize > 0 THEN MasterLoop(0, 0, M, P, dsk, g, col.mx, mw) \o <<Sync>> ELSE <<>>
        slave == IF ssize > 0 THEN SlaveLoop(0, 0, S, P, dsk, g, sx, sw) ELSE <<>>
    IN  master \o slave \o <<Sync>>

\* Do(): every request of one pass, in issue order
DoCalls(name, M, S, P, dsk, g) ==
    LET dx == dsk[1]
        dw == dsk[3]
        msize == msizeOf(M)
        ssize == msizeOf(S)
        col == DoColumns(name, M, S, P, dsk, g)
        mw == IF ssize = 0 THEN dw ELSE col.mw
        sx == IF msize = 0 THEN dx + g ELSE col.sx
        sw == IF msize = 0 THEN dw - g ELSE col.sw
        master == IF msize > 0 THEN MasterLoop(0, 0, M, P, dsk, g, col.mx, mw) ELSE <<>>
        slave == IF ssize > 0 THEN SlaveLoop(0, 0, S, P, dsk, g, sx, sw) ELSE <<>>
    IN  master \o slave \o <<Sync>>

\* Do() stops the process: a modulus of zero or a vector index out of range
\* in one of the two loops, or no entry MasterSlave[0]
DoPanics(M, S, P) ==
    \/ Len(P.MasterSlave) < 1
    \/ /\ msizeOf(M) > 0
       /\ \E i \in 0 .. Len(M.Clients) - 1 :
              M.Allowed = 0 \/ GoMod(i, msizeOf(M)) >= Len(P.MasterMaster)
    \/ /\ msizeOf(S) > 0
       /\ \E i \in 0 .. Len(S.Clients) - 1 :
              S.Allowed = 0 \/ GoMod(i, msizeOf(S)) >= Len(P.SlaveSlave)

\* UpdateProportions(c, d) stops the process: the modulus of idxmm or idxss
\* is zero (the vectors are read by SetProportions alone, which checks its
\* indices)
UpdatePanics(M, S, c) ==
    IF InList(M.Clients, c) THEN M.Allowed = 0 ELSE S.Allowed = 0

\* the request Do() issues for client c in the current state
PlacedRect(c) ==
    LET all == DoCalls(Name, Masters, Slaves, Proportions, desk, gap)
    IN  all[CHOOSE k \in 1 .. Len(all) : all[k].call = "MoveResize" /\ all[k].c = c]

Xor1(i) == 1 - i

\* variant of SwapDirections that leaves d as it was passed
SwapDirectionsNone(name, d) == d

\* UpdateProportions: d as the function leaves it (Left/Right swapped in vertical-left)
SwapDirections(name, d) ==
    IF name = "vertical-left"
    THEN [d EXCEPT !.Left = d.Right, !.Right = d.Left]
    ELSE d

\* variant of MasterSlaveIndex without the flip for a master
MasterSlaveIndexNoFlip(name, master) == IF name = "vertical-left" THEN 1 ELSE 0

\* UpdateProportions: idxms, the MasterSlave entry of the column of the client
MasterSlaveIndex(name, master) ==
    LET idxms == IF name = "vertical-left" THEN 1 ELSE 0
    IN  IF master THEN Xor1(idxms) ELSE idxms

\* variant of MasterPx that forgets the gaps on both sides of the window
MasterPxNoGap(cw, g, dw) == Q(cw, dw)

\* UpdateProportions: px of a master, (cw + 2*gap) / dw
MasterPx(cw, g, dw) == Q(cw + 2 * g, dw)

\* UpdateProportions: px of a slave, (cw + gap) / dw
SlavePx(cw, g, dw) == Q(cw + g, dw)

\* UpdateProportions(c, d) with c.OuterGeometry() = (_, _, cw, ch): the vectors after it
UpdateProportions(name, M, S, P, dsk, g, c, d, cw, ch) ==
    LET dw == dsk[3]
        dh == dsk[4]
        mmax == M.Allowed
        smax == S.Allowed
        msize == msizeOf(M)
        ssize == msizeOf(S)
        d1 == SwapDirections(name, d)
        master == InList(M.Clients, c)
        idxms == MasterSlaveIndex(name, master)
    IN  IF master
        THEN LET px == MasterPx(cw, g, dw)
                 py == Q(ch, dh - (msize + 1) * g)
                 idxmm == GoMod(Index(M.Clients, c), mmax)
                 ms == IF d1.Left
                       THEN SetProportions(P.MasterSlave, px, idxms, Xor1(idxms))
                       ELSE P.MasterSlave
                 mm == IF d1.Top
                       THEN SetProportions(P.MasterMaster, py, idxmm, idxmm - 1)
                       ELSE IF d1.Bottom
                            THEN SetProportions(P.MasterMaster, py, idxmm, idxmm + 1)
                            ELSE P.MasterMaster
             IN  [P EXCEPT !.MasterSlave = ms, !.MasterMaster = mm]
        ELSE LET px == SlavePx(cw, g, dw)
                 py == Q(ch, dh - (ssize + 1) * g)
                 idxss == GoMod(Index(S.Clients, c), smax)
                 ms == IF d1.Right
                       THEN SetProportions(P.MasterSlave, px, idxms, Xor1(idxms))
                       ELSE P.MasterSlave
                 ss == IF d1.Top
                       THEN SetProportions(P.SlaveSlave, py, idxss, idxss - 1)
                       ELSE IF d1.Bottom
                            THEN SetProportions(P.SlaveSlave, py, idxss, idxss + 1)
                            ELSE P.SlaveSlave
             IN  [P EXCEPT !.MasterSlave = ms, !.SlaveSlave = ss]

\* a call UpdateProportions(c, d) with c.OuterGeometry() = (_, _, cw, ch)
Gesture(d, cw, ch) == [d |-> d, cw |-> cw, ch |-> ch]

Dir(names) ==
    [ Left |-> "Left" \in names, Right |-> "Right" \in names,
      Top |-> "Top" \in names, Bottom |-> "Bottom" \in names ]

\* the calls made for client c: its window is where Do() placed it, or the
\* user dragged one edge or one corner of it, or its geometry query failed
\* (OuterGeometry then returns zeros); an untracked window has any size
Gestures(c) ==
    IF Tracked(c)
    THEN LET r == PlacedRect(c)
         IN  { Gesture(Dir({e}), r.w + v, r.h) : e \in {"Left", "Right"}, v \in {0, -2} }
             \cup
             { Gesture(Dir({e}), r.w, r.h + v) : e \in {"Top", "Bottom"}, v \in {0, 1} }
             \cup
             { Gesture(Dir({"Left", "Top"}), r.w + 2, r.h + 1),
               Gesture(Dir({"Left"}), 0, 0),
               Gesture(Dir({"Right"}), 0, 0) }
    ELSE { Gesture(Dir({"Left", "Top"}), 5, 5), Gesture(Dir({"Right", "Bottom"}), 5, 5) }

NoUpdate == [call |-> "none"]

\* ----------------------------------------------------------- layout actions

\* Windows are named by their position in Clients(): the m masters are
\* 1 .. m and the s slaves m+1 .. m+s, in list order
Renumbered(m, s) ==
    [ Masters |-> [i \in 1 .. m |-> i], Slaves |-> [i \in 1 .. s |-> m + i] ]

\* Manager.AddClient(c): a master while Masters has free capacity, else a slave
AddClient ==
    /\ Len(Clients) < MaxClients
    /\ LET master == Len(Masters.Clients) < Masters.Allowed
           lists == Renumbered(Len(Masters.Clients) + (IF master THEN 1 ELSE 0),
                               Len(Slaves.Clients) + (IF master THEN 0 ELSE 1))
       IN  /\ Masters' = [Masters EXCEPT !.Clients = lists.Masters]
           /\ Slaves' = [Slaves EXCEPT !.Clients = lists.Slaves]
    /\ Proportions' = Proportions
    /\ calls' = <<>> /\ prevCalls' = <<>> /\ last' = NoUpdate
    /\ UNCHANGED <<Name, desk, gap, nUpd>>
    /\ UNCHANGED clientVars

\* Manager.RemoveClient(c): the others keep their order; the proportions are
\* reset to an even split when no client is left
RemoveClient(c) ==
    /\ Tracked(c)
    /\ LET lists == Renumbered(Len(RemoveFrom(Masters.Clients, c)),
                               Len(RemoveFrom(Slaves.Clients, c)))
       IN  /\ Masters' = [Masters EXCEPT !.Clients = lists.Masters]
           /\ Slaves' = [Slaves EXCEPT !.Clients = lists.Slaves]
    /\ Proportions' =
           IF Len(Clients) = 1
           THEN [ MasterSlave  |-> calcProportions(2),
                  MasterMaster |-> calcProportions(Masters.Allowed),
                  SlaveSlave   |-> calcProportions(Slaves.Allowed) ]
           ELSE Proportions
    /\ calls' = <<>> /\ prevCalls' = <<>> /\ last' = NoUpdate
    /\ UNCHANGED <<Name, desk, gap, nUpd>>
    /\ UNCHANGED clientVars

\* Manager.IncreaseMaster(): Masters.Allowed + 1, at most the client count
IncreaseMaster ==
    /\ Masters.Allowed < Len(Clients)
    /\ Masters.Allowed < MaxAllowed
    /\ Masters' = [Masters EXCEPT !.Allowed = @ + 1]
    /\ Proportions' = [Proportions EXCEPT !.MasterMaster = calcProportions(Masters.Allowed + 1)]
    /\ calls' = <<>> /\ prevCalls' = <<>> /\ last' = NoUpdate
    /\ UNCHANGED <<Name, desk, gap, Slaves, nUpd>>
    /\ UNCHANGED clientVars

\* Manager.DecreaseMaster(): Masters.Allowed - 1, at least 1
DecreaseMaster ==
    /\ Masters.Allowed > 1
    /\ Masters' = [Masters EXCEPT !.Allowed = @ - 1]
    /\ Proportions' = [Proportions EXCEPT !.MasterMaster = calcProportions(Masters.Allowed - 1)]
    /\ calls' = <<>> /\ prevCalls' = <<>> /\ last' = NoUpdate
    /\ UNCHANGED <<Name, desk, gap, Slaves, nUpd>>
    /\ UNCHANGED clientVars

\* variant of Do that leaves the column swap of vertical-right in MasterSlave
DoSwapsInPlace ==
    /\ calls' = DoCalls(Name, Masters, Slaves, Proportions, desk, gap)
    /\ prevCalls' = calls
    /\ last' = NoUpdate
    /\ Proportions' =
           IF Name = "vertical-right" /\ Len(Clients) > Masters.Allowed
           THEN [Proportions EXCEPT !.MasterSlave = <<@[2], @[1]>>]
           ELSE Proportions
    /\ UNCHANGED <<Name, desk, gap, Masters, Slaves, nUpd>>
    /\ UNCHANGED clientVars

\* VerticalLayout.Do()
Do ==
    /\ calls' = DoCalls(Name, Masters, Slaves, Proportions, desk, gap)
    /\ prevCalls' = calls
    /\ last' = NoUpdate
    /\ UNCHANGED <<Name, desk, gap, Masters, Slaves, Proportions, nUpd>>
    /\ UNCHANGED clientVars

\* VerticalLayout.UpdateProportions(c, d)
DoUpdateProportions(c, d, cw, ch) ==
    /\ nUpd < MaxUpdates
    /\ Proportions' = UpdateProportions(Name, Masters, Slaves, Proportions, desk, gap, c, d, cw, ch)
    /\ last' = [ call |-> "UpdateProportions", c |-> c, d |-> d, cw |-> cw, ch |-> ch,
                 placed |-> (Tracked(c) /\ PlacedRect(c).w = cw /\ PlacedRect(c).h = ch),
                 after |-> SwapDirections(Name, d), again |-> FALSE ]
    /\ nUpd' = nUpd + 1
    /\ calls' = <<>> /\ prevCalls' = <<>>
    /\ UNCHANGED <<Name, desk, gap, Masters, Slaves>>
    /\ UNCHANGED clientVars

\* VerticalLayout.UpdateProportions(c, d) once more, the caller passing the
\* Directions object of the call before as that call left it (followed for
\* the last of the MaxUpdates calls)
DoUpdateProportionsSame ==
    /\ nUpd = MaxUpdates
    /\ last.call = "UpdateProportions"
    /\ ~last.again
    /\ Proportions' = UpdateProportions(Name, Masters, Slaves, Proportions, desk, gap,
                                        last.c, last.after, last.cw, last.ch)
    /\ last' = [ last EXCEPT !.d = last.after,
                             !.placed = ( /\ Tracked(last.c)
                                          /\ PlacedRect(last.c).w = last.cw
                                          /\ PlacedRect(last.c).h = last.ch ),
                             !.after = SwapDirections(Name, last.after),
                             !.again = TRUE ]
    /\ calls' = <<>> /\ prevCalls' = <<>>
    /\ UNCHANGED <<Name, desk, gap, Masters, Slaves, nUpd>>
    /\ UNCHANGED clientVars

\* ------------------------------------------------------------------ client

\* flags of Client.Restore
FlagOriginal == 1
FlagCached == 2
FlagLatest == 3

MaxReqs == 2

ZeroRect == <<0, 0, 0, 0>>

\* rectangles (x, y, w, h) a window is asked to take or is dragged to
ClientRects == {<<0, 0, 4, 3>>, <<2, 1, 5, 5>>}

\* arguments of MoveWindow: a rectangle, or a position alone (w = h = 0)
MoveArgs == {<<2, 1, 5, 5>>, <<0, 0, 0, 0>>}

\* frame extents (left, right, top, bottom) by the kind of decoration:
\* _NET_FRAME_EXTENTS add, _GTK_FRAME_EXTENTS subtract
ExtentsOf(frame) ==
    CASE frame = "net" -> <<1, 1, 2, 1>>
      [] frame = "netgravity" -> <<1, 1, 2, 1>>
      [] frame = "gtk" -> <<-1, -1, -1, -1>>
      [] OTHER -> <<0, 0, 0, 0>>

Frames == {"none", "net", "netgravity", "gtk"}

\* GetInfo(w): the snapshot queried from the X server; every query fails
\* once the window is gone, which leaves the class empty
GetInfo(xw) ==
    IF xw.alive
    THEN [ Class      |-> "app",
           States     |-> xw.states,
           Geometry   |-> xw.geom,
           Decor      |-> xw.decor,
           Extents    |-> ExtentsOf(xw.frame),
           AdjPos     |-> xw.frame \in {"netgravity", "gtk"},
           AdjSize    |-> xw.frame # "none",
           AdjRestore |-> xw.frame = "gtk" ]
    ELSE [ Class      |-> "",
           States     |-> {},
           Geometry   |-> ZeroRect,
           Decor      |-> TRUE,
           Extents    |-> <<0, 0, 0, 0>>,
           AdjPos     |-> FALSE,
           AdjSize    |-> FALSE,
           AdjRestore |-> FALSE ]

IsFullscreen(info) == "FULLSCREEN" \in info.States
IsMaximized(info) == "MAXIMIZED" \in info.States
IsSticky(info) == "STICKY" \in info.States

\* a state request reaches the window only while it exists
XRemoveState(xw, state) == IF xw.alive THEN [xw EXCEPT !.states = @ \ {state}] ELSE xw
XAddState(xw, state) == IF xw.alive THEN [xw EXCEPT !.states = @ \cup {state}] ELSE xw
XSetDecor(xw, on) == IF xw.alive THEN [xw EXCEPT !.decor = on] ELSE xw

\* ewmh.MoveresizeWindow / ewmh.MoveWindow as the window manager applies it:
\* the decorated window ends at (x, y), with size (w, h) when both are positive
XMoveResize(xw, x, y, w, h) ==
    IF ~xw.alive THEN xw
    ELSE IF w > 0 /\ h > 0 THEN [xw EXCEPT !.geom = <<x, y, w, h>>]
    ELSE [xw EXCEPT !.geom = <<x, y, @[3], @[4]>>]

\* Client.Lock()
Lock(c) == [c EXCEPT !.Locked = TRUE]

\* Client.UnLock()
UnLock(c) == [c EXCEPT !.Locked = FALSE]

\* variant of Update that stores the snapshot of a failed query as well
UpdateUnchecked(c) == [c EXCEPT !.Latest = GetInfo(c.xwin)]

\* Client.Update()
Update(c) ==
    LET info == GetInfo(c.xwin)
    IN  IF info.Class = "" THEN c ELSE [c EXCEPT !.Latest = info]

\* Client.UnMaximize()
UnMaximize(c) ==
    IF ~IsMaximized(c.Latest) THEN c
    ELSE [c EXCEPT !.xwin = XRemoveState(@, "MAXIMIZED")]

\* Client.UnFullscreen()
UnFullscreen(c) ==
    IF ~IsFullscreen(c.Latest) THEN c
    ELSE [c EXCEPT !.xwin = XRemoveState(@, "FULLSCREEN")]

\* Client.UnLimit(): the normal hints of the Cached snapshot are written back
UnLimit(c) == c

\* Client.Limit(w, h): minimum-size hints are written to the window; the
\* hints of the window are outside the Client object
Limit(c, w, h) == c

\* Client.Fullscreen()
Fullscreen(c) ==
    IF IsFullscreen(c.Latest) THEN c
    ELSE [c EXCEPT !.xwin = XAddState(@, "FULLSCREEN")]

\* Client.Write(): the Latest snapshot goes to the cache file; the Client
\* object is only read
Write(c) == c

\* Client.Read(): the cached client is returned to the caller; the Client
\* object is only read
Read(c) == c

\* Client.MoveToDesktop(^uint32(0))
MoveToAllDesktops(c) == [c EXCEPT !.xwin = XAddState(@, "STICKY")]

\* Client.Decorate()
Decorate(c, conf) ==
    IF ~conf.DecorationKey THEN c
    ELSE IF c.Latest.Decor \/ ~c.Original.Decor THEN c
    ELSE [c EXCEPT !.xwin = XSetDecor(@, TRUE)]

\* Client.UnDecorate()
UnDecorate(c, conf) ==
    IF ~conf.DecorationKey THEN c
    ELSE IF ~c.Latest.Decor /\ c.Original.Decor THEN c
    ELSE [c EXCEPT !.xwin = XSetDecor(@, FALSE)]

\* Client.MoveWindow(x, y, w, h), lines 233-256: the client is not locked
MoveWindowApply(c, x, y, w, h) ==
    LET c1 == UnFullscreen(UnMaximize(c))
        ext == c1.Latest.Extents
        dx == IF c1.Latest.AdjPos THEN ext[1] ELSE 0
        dy == IF c1.Latest.AdjPos THEN ext[3] ELSE 0
        dw == IF c1.Latest.AdjSize THEN ext[1] + ext[2] ELSE 0
        dh == IF c1.Latest.AdjSize THEN ext[3] + ext[4] ELSE 0
        req == [ x |-> x + dx, y |-> y + dy, w |-> w - dw, h |-> h - dh,
                 resize |-> (w > 0 /\ h > 0), locked |-> c1.Locked,
                 to |-> <<x, y, w, h>> ]
    IN  Update([c1 EXCEPT !.xwin = XMoveResize(@, x, y, w, h), !.reqs = Append(@, req)])

\* variant of MoveWindow that discards the move and stays locked
MoveWindowStaysLocked(c, x, y, w, h) ==
    IF c.Locked
    THEN c
    ELSE MoveWindowApply(c, x, y, w, h)

\* Client.MoveWindow(x, y, w, h)
MoveWindow(c, x, y, w, h) ==
    IF c.Locked
    THEN UnLock(c)
    ELSE MoveWindowApply(c, x, y, w, h)

\* variant of Restore that always moves to the Latest geometry
RestoreToLatest(c, flag, conf) ==
    LET Refreshed(c0) == IF flag = FlagLatest THEN Update(c0) ELSE c0
        Stickied(c1) == IF flag = FlagCached /\ IsSticky(c1.Cached) THEN MoveToAllDesktops(c1) ELSE c1
        Decorated(c3) ==
            IF flag = FlagOriginal
            THEN Update(IF conf.WindowDecoration THEN Decorate(c3, conf) ELSE UnDecorate(c3, conf))
            ELSE c3
        Adjusted(c4) ==
            IF c4.Latest.AdjRestore
            THEN [c4 EXCEPT !.Latest.AdjPos = FALSE, !.Latest.AdjSize = FALSE]
            ELSE c4
        Geometry(c5) ==
            c5.Latest.Geometry
        Moved(c5, geom) == MoveWindow(c5, geom[1], geom[2], geom[3], geom[4])
        Restored(c5) == Moved(c5, Geometry(c5))
    IN  Restored(Adjusted(Decorated(UnFullscreen(UnMaximize(UnLimit(Stickied(Refreshed(c))))))))

\* variant of Restore that disables the adjustments on the snapshot it restores
RestoreAdjustsSnapshot(c, flag, conf) ==
    LET Refreshed(c0) == IF flag = FlagLatest THEN Update(c0) ELSE c0
        Stickied(c1) == IF flag = FlagCached /\ IsSticky(c1.Cached) THEN MoveToAllDesktops(c1) ELSE c1
        Decorated(c3) ==
            IF flag = FlagOriginal
            THEN Update(IF conf.WindowDecoration THEN Decorate(c3, conf) ELSE UnDecorate(c3, conf))
            ELSE c3
        Adjusted(c4) ==
            IF c4.Latest.AdjRestore
            THEN IF flag = FlagOriginal
                 THEN [c4 EXCEPT !.Original.AdjPos = FALSE, !.Original.AdjSize = FALSE]
                 ELSE [c4 EXCEPT !.Latest.AdjPos = FALSE, !.Latest.AdjSize = FALSE]
            ELSE c4
        Geometry(c5) ==
            CASE flag = FlagOriginal -> c5.Original.Geometry
              [] flag = FlagCached -> c5.Cached.Geometry
              [] OTHER -> c5.Latest.Geometry
        Moved(c5, geom) == MoveWindow(c5, geom[1], geom[2], geom[3], geom[4])
        Restored(c5) == Moved(c5, Geometry(c5))
    IN  Restored(Adjusted(Decorated(UnFullscreen(UnMaximize(UnLimit(Stickied(Refreshed(c))))))))

\* Client.Restore(flag): each step takes the client the step before left
Restore(c, flag, conf) ==
    LET Refreshed(c0) == IF flag = FlagLatest THEN Update(c0) ELSE c0
        Stickied(c1) == IF flag = FlagCached /\ IsSticky(c1.Cached) THEN MoveToAllDesktops(c1) ELSE c1
        Decorated(c3) ==
            IF flag = FlagOriginal
            THEN Update(IF conf.WindowDecoration THEN Decorate(c3, conf) ELSE UnDecorate(c3, conf))
            ELSE c3
        Adjusted(c4) ==
            IF c4.Latest.AdjRestore
            THEN [c4 EXCEPT !.Latest.AdjPos = FALSE, !.Latest.AdjSize = FALSE]
            ELSE c4
        Geometry(c5) ==
            CASE flag = FlagOriginal -> c5.Original.Geometry
              [] flag = FlagCached -> c5.Cached.Geometry
              [] OTHER -> c5.Latest.Geometry
        Moved(c5, geom) == MoveWindow(c5, geom[1], geom[2], geom[3], geom[4])
        Restored(c5) == Moved(c5, Geometry(c5))
    IN  Restored(Adjusted(Decorated(UnFullscreen(UnMaximize(UnLimit(Stickied(Refreshed(c))))))))

\* CreateClient(w): cachedLatest is the Latest snapshot Read() finds in the
\* cache, or the client's own when the cache has none
CreateClient(xw, cacheGeom, conf) ==
    LET New(info) == [ Locked |-> FALSE, Original |-> info, Cached |-> info, Latest |-> info,
                       xwin |-> xw, reqs |-> <<>> ]
        cachedLatest(c0) == IF cacheGeom = ZeroRect THEN c0.Latest
                            ELSE [c0.Latest EXCEPT !.Geometry = cacheGeom]
        Cache(c0, cached) == [c0 EXCEPT !.Cached.States = cached.States,
                                        !.Cached.Geometry = cached.Geometry]
        Cached0(c0) == Cache(c0, cachedLatest(c0))
        Latest0(c2) == [c2 EXCEPT !.Latest.States = c2.Cached.States,
                                  !.Latest.Geometry = c2.Cached.Geometry]
    IN  Latest0(Restore(Cached0(New(GetInfo(xw))), FlagCached, conf))

\* the Client object as one record
Self ==
    [ Locked |-> Locked, Original |-> Original, Cached |-> Cached, Latest |-> Latest,
      xwin |-> xwin, reqs |-> reqs ]

\* the Client object after an operation named o
Becomes(c, o) ==
    /\ Locked' = c.Locked
    /\ Original' = c.Original
    /\ Cached' = c.Cached
    /\ Latest' = c.Latest
    /\ xwin' = c.xwin
    /\ reqs' = c.reqs
    /\ op' = o
    /\ UNCHANGED Config
    /\ UNCHANGED layoutVars

\* ----------------------------------------------------------- client actions

DoLock == Becomes(Lock(Self), "Lock")

DoUnLock == Becomes(UnLock(Self), "UnLock")

DoUpdate == Becomes(Update(Self), "Update")

DoMoveWindow(r) ==
    /\ Len(reqs) < MaxReqs
    /\ Becomes(MoveWindow(Self, r[1], r[2], r[3], r[4]), "MoveWindow")

DoRestore(flag) ==
    /\ Len(reqs) < MaxReqs
    /\ Becomes(Restore(Self, flag, Config), "Restore")

DoDecorate == Becomes(Decorate(Self, Config), "Decorate")

DoUnDecorate == Becomes(UnDecorate(Self, Config), "UnDecorate")

DoFullscreen == Becomes(Fullscreen(Self), "Fullscreen")

DoUnFullscreen == Becomes(UnFullscreen(Self), "UnFullscreen")

DoUnMaximize == Becomes(UnMaximize(Self), "UnMaximize")

DoLimit(r) == Becomes(Limit(Self, r[3], r[4]), "Limit")

DoUnLimit == Becomes(UnLimit(Self), "UnLimit")

DoWrite == Becomes(Write(Self), "Write")

DoRead == Becomes(Read(Self), "Read")

\* the user or the window manager moves or resizes the window
XConfigure(r) ==
    /\ xwin.alive
    /\ xwin.geom # r
    /\ Becomes([Self EXCEPT !.xwin.geom = r], "X")

\* the user maximizes the window or makes it fullscreen
XState(state) ==
    /\ xwin.alive
    /\ state \notin xwin.states
    /\ Becomes([Self EXCEPT !.xwin.states = @ \cup {state}], "X")

\* the window is destroyed
XDestroy ==
    /\ xwin.alive
    /\ Becomes([Self EXCEPT !.xwin.alive = FALSE], "X")

\* -------------------------------------------------------------- specifications

\* a window as CreateClient may find it
Windows ==
    { [alive |-> TRUE, geom |-> <<0, 0, 4, 3>>, states |-> {}, decor |-> TRUE, frame |-> f] :
          f \in Frames }

Configs == {[WindowDecoration |-> wd, DecorationKey |-> TRUE] : wd \in BOOLEAN}

\* the one client of the layout specification
TheWindow == [alive |-> TRUE, geom |-> <<0, 0, 4, 3>>, states |-> {}, decor |-> TRUE, frame |-> "none"]
TheConfig == [WindowDecoration |-> TRUE, DecorationKey |-> TRUE]

InitClient(xw, cacheGeom, cfg) ==
    LET c == CreateClient(xw, cacheGeom, cfg)
    IN  /\ Locked = c.Locked
        /\ Original = c.Original
        /\ Cached = c.Cached
        /\ Latest = c.Latest
        /\ xwin = c.xwin
        /\ reqs = c.reqs
        /\ Config = cfg
        /\ op = "CreateClient"

InitLayout(l, dsk, g) ==
    /\ Name = l.Name
    /\ Masters = l.Masters
    /\ Slaves = l.Slaves
    /\ Proportions = l.Proportions
    /\ desk = dsk
    /\ gap = g
    /\ calls = <<>>
    /\ prevCalls = <<>>
    /\ last = NoUpdate
    /\ nUpd = 0

Layouts(proportion) ==
    { CreateVerticalLeftLayout(1, s, proportion) : s \in 1 .. MaxAllowed }
    \cup
    { CreateVerticalRightLayout(1, s, proportion) : s \in 1 .. MaxAllowed }

Init ==
    /\ \E e \in Sessions : \E l \in Layouts(e.proportion) : InitLayout(l, e.desk, e.gap)
    /\ InitClient(TheWindow, ZeroRect, TheConfig)

Next ==
    \/ AddClient
    \/ \E c \in ClientIds : RemoveClient(c)
    \/ IncreaseMaster
    \/ DecreaseMaster
    \/ Do
    \/ \E c \in ClientIds : \E u \in Gestures(c) : DoUpdateProportions(c, u.d, u.cw, u.ch)

Spec == Init /\ [][Next]_vars

\* the layout with a caller of UpdateProportions that may pass the same
\* Directions object once more
NextUpdate ==
    \/ Next
    \/ DoUpdateProportionsSame

SpecUpdate == Init /\ [][NextUpdate]_vars

InitC ==
    /\ InitLayout(CreateVerticalLeftLayout(1, 1, Q(3, 5)), <<0, 0, 12, 11>>, 0)
    /\ \E xw \in Windows, cg \in {ZeroRect, <<2, 1, 5, 5>>}, cfg \in Configs : InitClient(xw, cg, cfg)

NextC ==
    \/ DoLock
    \/ DoUnLock
    \/ DoUpdate
    \/ \E r \in MoveArgs : DoMoveWindow(r)
    \/ \E flag \in {FlagOriginal, FlagCached, FlagLatest} : DoRestore(flag)
    \/ \E r \in ClientRects : XConfigure(r)
    \/ \E state \in {"MAXIMIZED", "FULLSCREEN"} : XState(state)
    \/ XDestroy

SpecClient == InitC /\ [][NextC]_vars

\* every operation of a Client created from a cached geometry, on a window
\* the user may maximize or make fullscreen
InitOps ==
    /\ InitLayout(CreateVerticalLeftLayout(1, 1, Q(3, 5)), <<0, 0, 12, 11>>, 0)
    /\ \E xw \in Windows, cfg \in Configs : InitClient(xw, <<2, 1, 5, 5>>, cfg)

NextOps ==
    \/ DoLock
    \/ DoUnLock
    \/ DoUpdate
    \/ \E r \in MoveArgs : DoMoveWindow(r)
    \/ \E flag \in {FlagOriginal, FlagCached, FlagLatest} : DoRestore(flag)
    \/ DoDecorate
    \/ DoUnDecorate
    \/ DoFullscreen
    \/ DoUnFullscreen
    \/ DoUnMaximize
    \/ \E r \in ClientRects : DoLimit(r)
    \/ DoUnLimit
    \/ DoWrite
    \/ DoRead
    \/ \E state \in {"MAXIMIZED", "FULLSCREEN"} : XState(state)

SpecOps == InitOps /\ [][NextOps]_vars

\* Do() as a function of the manager state, the desktop and the gap: the
\* inputs are drawn at the start and Do() is applied to them
MaxDoClients == 4
MaxDoAllowed == 3

\* the sessions of Do(): those above and a 1920x1080 desktop with gap 5
DoSessions ==
    Sessions \cup {[desk |-> <<0, 0, 1920, 1080>>, gap |-> 5, proportion |-> Q(3, 5)]}

\* a height split: the even one, or its first boundary moved by 1/12
Splits(n) ==
    {calcProportions(n)}
    \cup {SetProportions(calcProportions(n), QAdd(Q(1, n), Q(1, 12)), 0, 1)}

\* the layout after n AddClient calls (masters first, up to Allowed) and
\* UpdateProportions calls that left the height splits mm and ss
Filled(l, n, mm, ss) ==
    LET m == MinInt(n, l.Masters.Allowed)
        lists == Renumbered(m, n - m)
    IN  [l EXCEPT !.Masters.Clients = lists.Masters,
                  !.Slaves.Clients = lists.Slaves,
                  !.Proportions.MasterMaster = mm,
                  !.Proportions.SlaveSlave = ss]

DoLayouts(proportion) ==
    { Filled(l, n, mm, ss) :
          l \in { CreateVerticalLeftLayout(a, b, proportion) : a, b \in 1 .. MaxDoAllowed }
                \cup { CreateVerticalRightLayout(a, b, proportion) : a, b \in 1 .. MaxDoAllowed },
          n \in 0 .. MaxDoClients,
          mm \in UNION { Splits(a) : a \in 1 .. MaxDoAllowed },
          ss \in UNION { Splits(b) : b \in 1 .. MaxDoAllowed } }

InitDo ==
    /\ \E e \in DoSessions : \E l \in DoLayouts(e.proportion) :
           /\ Len(l.Proportions.MasterMaster) = l.Masters.Allowed
           /\ Len(l.Proportions.SlaveSlave) = l.Slaves.Allowed
           /\ InitLayout(l, e.desk, e.gap)
    /\ InitClient(TheWindow, ZeroRect, TheConfig)

\* between passes the manager may lower Masters.Allowed
NextDo == Do \/ DecreaseMaster

SpecDo == InitDo /\ [][NextDo]_vars

\* ------------------------------------------------------------------ claims

\* the move/resize requests of a pass
Moves(cs) == SelectSeq(cs, LAMBDA e : e.call = "MoveResize")

\* rectangle r lies in the desktop shrunk by one gap on every side
Inside(r) ==
    /\ r.x >= desk[1] + gap
    /\ r.y >= desk[2] + gap
    /\ r.x + r.w <= desk[1] + desk[3] - gap
    /\ r.y + r.h <= desk[2] + desk[4] - gap

Overlap(a, b) ==
    /\ a.x < b.x + b.w /\ b.x < a.x + a.w
    /\ a.y < b.y + b.h /\ b.y < a.y + a.h

SumsToOne == \A v \in {Proportions.MasterSlave, Proportions.MasterMaster, Proportions.SlaveSlave} :
                 QSum(v) = QOne

PassDone == calls # <<>>

\* C1: with at least one client, no partition above its Allowed count and
\* proportion vectors summing to 1, the rectangles of a Do() pass do not
\* overlap pairwise and each lies inside the desktop shrunk by one gap.
C1_DoInsideDisjoint ==
    ( /\ PassDone
      /\ Len(Clients) >= 1
      /\ Len(Masters.Clients) <= Masters.Allowed
      /\ Len(Slaves.Clients) <= Slaves.Allowed
      /\ SumsToOne /\ gap >= 0 )
    => LET m == Moves(calls)
       IN  /\ Len(m) = Len(Clients)
           /\ \A i \in 1 .. Len(m) : Inside(m[i])
           /\ \A i, j \in 1 .. Len(m) : i < j => ~Overlap(m[i], m[j])

C8_OneMoveEachThenSync ==
    PassDone =>
        /\ Len(calls) = Len(Clients) + 1
        /\ \A i \in 1 .. Len(Clients) : calls[i].call = "MoveResize" /\ calls[i].c = Clients[i]
        /\ calls[Len(calls)] = Sync

C8_Witness == PassDone /\ Len(Masters.Clients) >= 1 /\ Len(Slaves.Clients) >= 1

\* C7: when one partition is empty every client of the other is placed at
\* x = dx + gap with width dw - 2 * gap.
C7_FullWidth ==
    (PassDone /\ (Len(Masters.Clients) = 0 \/ Len(Slaves.Clients) = 0))
    => \A i \in 1 .. Len(Moves(calls)) :
           /\ Moves(calls)[i].x = desk[1] + gap
           /\ Moves(calls)[i].w = desk[3] - 2 * gap

\* the step is a call UpdateProportions(c, d) for a tracked client
Updated == last'.call = "UpdateProportions" /\ Tracked(last'.c)

\* the MasterSlave index of the column of c: master 0 and slave 1 in
\* vertical-left, master 1 and slave 0 in vertical-right
OwnIndex(c) ==
    IF Name = "vertical-left"
    THEN (IF IsMaster(c) THEN 0 ELSE 1)
    ELSE (IF IsMaster(c) THEN 1 ELSE 0)

\* the edge the claims name as shared with the other column
BoundaryEdge(c) ==
    IF Name = "vertical-left"
    THEN (IF IsMaster(c) THEN "Right" ELSE "Left")
    ELSE (IF IsMaster(c) THEN "Left" ELSE "Right")

OppositeEdge(e) == IF e = "Left" THEN "Right" ELSE "Left"

\* the width fraction UpdateProportions computes for c
WidthFraction(c, cw) ==
    IF IsMaster(c) THEN Q(cw + 2 * gap, desk[3]) ELSE Q(cw + gap, desk[3])

\* the list, the vector and the height shared out in the partition of c
OwnList(c) == IF IsMaster(c) THEN Masters ELSE Slaves
OwnVector(P, c) == IF IsMaster(c) THEN P.MasterMaster ELSE P.SlaveSlave
OwnHeight(c) == desk[4] - (msizeOf(OwnList(c)) + 1) * gap
RowIndex(c) == GoMod(Index(OwnList(c).Clients, c), OwnList(c).Allowed)

\* both columns hold clients, and the edge of c that faces the other column:
\* Do() puts the master column on the right exactly when it swaps the columns
ColumnsSplit == Len(Masters.Clients) > 0 /\ Len(Slaves.Clients) > 0
MasterOnLeft == ~(Name = "vertical-right" /\ Len(Clients) > Masters.Allowed)
SharedEdge(c) == IF IsMaster(c) = MasterOnLeft THEN "Right" ELSE "Left"

\* c has a neighbour above / below in its row
HasAbove(c) == RowIndex(c) > 0
HasBelow(c) ==
    /\ Index(OwnList(c).Clients, c) + 1 < Len(OwnList(c).Clients)
    /\ RowIndex(c) + 1 < OwnList(c).Allowed

\* a and b differ by at most half a pixel of an extent of ext pixels
Close(a, b, ext) == QLe(QAbs(QSub(a, b)), Q(1, 2 * ext))

C5_BoundarySets ==
    [][ (Updated /\ last'.d = Dir({BoundaryEdge(last'.c)})) =>
          LET c == last'.c
              px == WidthFraction(c, last'.cw)
          IN  /\ At(Proportions'.MasterSlave, OwnIndex(c)) = px
              /\ At(Proportions'.MasterSlave, Xor1(OwnIndex(c))) = QSub(QOne, px)
              /\ Proportions'.MasterMaster = Proportions.MasterMaster
              /\ Proportions'.SlaveSlave = Proportions.SlaveSlave
      ]_vars

\* C5 amended: the same, provided the fraction and its complement are both
\* at least the minimum proportion; MasterMaster and SlaveSlave stay as they
\* were in every case.
C5_BoundarySetsWhenAccepted ==
    [][ (Updated /\ last'.d = Dir({BoundaryEdge(last'.c)})) =>
          LET c == last'.c
              px == WidthFraction(c, last'.cw)
          IN  /\ (QLe(ProportionMin, px) /\ QLe(ProportionMin, QSub(QOne, px))) =>
                     /\ At(Proportions'.MasterSlave, OwnIndex(c)) = px
                     /\ At(Proportions'.MasterSlave, Xor1(OwnIndex(c))) = QSub(QOne, px)
              /\ Proportions'.MasterMaster = Proportions.MasterMaster
              /\ Proportions'.SlaveSlave = Proportions.SlaveSlave
      ]_vars

C5_Witness ==
    /\ last.call = "UpdateProportions" /\ Tracked(last.c) /\ ~last.placed
    /\ last.d = Dir({BoundaryEdge(last.c)})
    /\ QLe(ProportionMin, WidthFraction(last.c, last.cw))
    /\ Proportions.MasterSlave = <<Q(2, 5), Q(3, 5)>>

\* C6: UpdateProportions changes no vector when the one moved edge is the
\* desktop-facing side of a column, the top of the first client of a column,
\* the bottom of the last client of a column, or a side of a client whose
\* opposite partition is empty.
C6_OuterEdgeNoChange ==
    [][ Updated =>
          LET c == last'.c
              d == last'.d
              i == Index(OwnList(c).Clients, c)
              other == IF IsMaster(c) THEN Slaves ELSE Masters
          IN  ( \/ d = Dir({OppositeEdge(BoundaryEdge(c))})
                \/ (d = Dir({"Top"}) /\ i = 0)
                \/ (d = Dir({"Bottom"}) /\ i = Len(OwnList(c).Clients) - 1)
                \/ (d \in {Dir({"Left"}), Dir({"Right"})} /\ Len(other.Clients) = 0) )
              => Proportions' = Proportions
      ]_vars

\* C9: every move request the client sends to the X server (from MoveWindow,
\* directly or at the end of Restore) was issued with Locked set.
C9_LockedBeforeMove == \A k \in 1 .. Len(reqs) : reqs[k].locked

\* C10: Locked is a one-shot latch. It is cleared only by MoveWindow, Restore
\* (through MoveWindow) or UnLock; a MoveWindow that finds it set clears it
\* and changes nothing else (no request, no geometry refresh, no proportion
\* update); a MoveWindow that finds it clear sends exactly one request.
C10_OneShotLatch ==
    [][ /\ (Locked /\ ~Locked') => op' \in {"MoveWindow", "Restore", "UnLock"}
        /\ (op' = "MoveWindow" /\ Locked) =>
               /\ ~Locked'
               /\ reqs' = reqs /\ xwin' = xwin
               /\ Latest' = Latest /\ Original' = Original /\ Cached' = Cached
               /\ Proportions' = Proportions
        /\ (op' = "MoveWindow" /\ ~Locked) =>
               /\ ~Locked'
               /\ Len(reqs') = Len(reqs) + 1
      ]_vars

C10_Witness == op = "MoveWindow" /\ Len(reqs) = 1 /\ ~Locked

\* C11: no Client operation changes the Original snapshot taken by
\* CreateClient.
C11_OriginalKept == [][Original' = Original]_vars

C11_Witness ==
    /\ op = "Restore" /\ Len(reqs) >= 2
    /\ Original.AdjRestore /\ Latest # Original
    /\ Original.Geometry = <<0, 0, 4, 3>> /\ Original.States = {}

\* C12: in every state neither Do() nor UpdateProportions(c, d), for a
\* master, a slave or an untracked c, divides by a zero Allowed or reads a
\* proportion vector outside its length.
C12_NoPanic ==
    /\ Masters.Allowed >= 1 /\ Slaves.Allowed >= 1
    /\ ~DoPanics(Masters, Slaves, Proportions)
    /\ \A c \in ClientIds : ~UpdatePanics(Masters, Slaves, c)

C12_Witness ==
    /\ last.call = "UpdateProportions" /\ ~Tracked(last.c) /\ last.d.Top
    /\ Len(Masters.Clients) >= 1

\* the requests of the latest pass for the masters and for the slaves
MasterMoves == SelectSeq(calls, LAMBDA e : e.call = "MoveResize" /\ InList(Masters.Clients, e.c))
SlaveMoves == SelectSeq(calls, LAMBDA e : e.call = "MoveResize" /\ InList(Slaves.Clients, e.c))

\* a / b rounded to the nearest integer, halves upward (a >= 0, b > 0)
RoundDiv(a, b) == (2 * a + b) \div (2 * b)

\* 1 master and 3 slaves on a 1920x1080 desktop at the origin, gap 5,
\* MasterSlave = [0.6, 0.4], equal slave heights
Scenario1920 ==
    /\ Name = "vertical-left" /\ desk = <<0, 0, 1920, 1080>> /\ gap = 5
    /\ Len(Masters.Clients) = 1 /\ Len(Slaves.Clients) = 3
    /\ Proportions.MasterSlave = <<Q(3, 5), Q(2, 5)>>
    /\ Proportions.SlaveSlave = calcProportions(3)

RightMoves == Moves(DoCalls("vertical-right", Masters, Slaves, Proportions, desk, gap))
LeftMoves ==
    Moves(DoCalls("vertical-left", Masters, Slaves,
                  [Proportions EXCEPT !.MasterSlave = <<@[2], @[1]>>], desk, gap))

\* rectangle a is rectangle b reflected about the vertical centre line of
\* the desktop, within one pixel, with the same y and height
Mirrored(a, b) ==
    /\ a.c = b.c
    /\ a.y = b.y /\ a.h = b.h
    /\ Abs(a.w - b.w) <= 1
    /\ Abs(a.x - (2 * desk[1] + desk[3] - (b.x + b.w))) <= 1

\* C14: with masters and slaves, the rectangles of vertical-right are the
\* mirror images, within one pixel, of those of vertical-left with the
\* MasterSlave entries swapped, and y and height are the same.
C14_MirrorImage ==
    ColumnsSplit =>
        /\ Len(RightMoves) = Len(LeftMoves)
        /\ \A i \in 1 .. Len(RightMoves) : Mirrored(RightMoves[i], LeftMoves[i])

\* the moves ms of a partition part with height split v wrap into rows:
\* every client at a multiple of Allowed starts at dy+gap, client i is as
\* high as entry i mod min(len, Allowed) says, that index is i mod Allowed,
\* and beyond Allowed client i gets the rectangle of client i mod Allowed
RowWrap(ms, part, v) ==
    LET size == msizeOf(part)
        H == desk[4] - (size + 1) * gap
    IN  \A i \in 0 .. Len(ms) - 1 :
            LET r == At(ms, i)
                q == At(ms, GoMod(i, part.Allowed))
            IN  /\ GoMod(i, part.Allowed) = 0 => r.y = desk[2] + gap
                /\ GoMod(i, size) = GoMod(i, part.Allowed)
                /\ r.h = RoundMul(H, At(v, GoMod(i, size)))
                /\ Len(ms) > part.Allowed =>
                       r.x = q.x /\ r.y = q.y /\ r.w = q.w /\ r.h = q.h

\* C15: in a Do() pass both columns wrap into rows of Allowed clients.
C15_RowWrap ==
    PassDone =>
        /\ RowWrap(MasterMoves, Masters, Proportions.MasterMaster)
        /\ RowWrap(SlaveMoves, Slaves, Proportions.SlaveSlave)

C15_Witness ==
    /\ PassDone
    /\ Slaves.Allowed = 2 /\ Len(Slaves.Clients) = 3
    /\ Proportions.SlaveSlave # calcProportions(2)
    /\ SlaveMoves[3].y = SlaveMoves[1].y /\ SlaveMoves[2].y > SlaveMoves[1].y

\* C16: Update() keeps Latest when the query returns no class and replaces
\* it by the queried snapshot otherwise; Original, Cached and Locked stay.
C16_UpdateKeepsOnFailure ==
    [][ op' = "Update" =>
          /\ Latest' = IF GetInfo(xwin).Class = "" THEN Latest ELSE GetInfo(xwin)
          /\ Original' = Original /\ Cached' = Cached /\ Locked' = Locked
      ]_vars

C16_Witness ==
    /\ op = "Update" /\ ~xwin.alive
    /\ Latest.Class # "" /\ Latest.Geometry = <<2, 1, 5, 5>>

\* the geometry Restore(flag) moves the window to: that of Original, of
\* Cached, or of Latest as refreshed at the start of Restore
RestoreTarget(flag) ==
    CASE flag = FlagOriginal -> Original.Geometry
      [] flag = FlagCached -> Cached.Geometry
      [] OTHER -> Update(Self).Latest.Geometry

RestoreFlags == {FlagOriginal, FlagCached, FlagLatest}

\* C17 as claimed: Restore(flag) leaves the client unlocked, sends one move
\* to the geometry of the selected snapshot exactly when the client was not
\* locked, and on a locked client changes nothing but the lock.
C17_RestoreOnlyConsumesLock ==
    [][ \A flag \in RestoreFlags : DoRestore(flag) =>
          /\ ~Locked'
          /\ ~Locked => /\ Len(reqs') = Len(reqs) + 1
                        /\ reqs'[Len(reqs')].to = RestoreTarget(flag)
          /\ Locked => /\ reqs' = reqs /\ xwin' = xwin
                       /\ Latest' = Latest /\ Cached' = Cached /\ Original' = Original
      ]_vars

\* C17 amended: Restore(flag) leaves the client unlocked and sends one move
\* to the geometry of the selected snapshot exactly when the client was not
\* locked; on a locked client it sends no move.
C17_RestoreMovesUnlessLocked ==
    [][ \A flag \in RestoreFlags : DoRestore(flag) =>
          /\ ~Locked'
          /\ ~Locked => /\ Len(reqs') = Len(reqs) + 1
                        /\ reqs'[Len(reqs')].to = RestoreTarget(flag)
          /\ Locked => reqs' = reqs
      ]_vars

C17_Witness ==
    /\ op = "Restore" /\ ~Locked /\ Len(reqs) = 1
    /\ reqs[1].to = <<0, 0, 4, 3>> /\ Latest.Geometry = <<2, 1, 5, 5>>

\* d with its Left and Right fields exchanged
Flipped(d) == [Left |-> d.Right, Right |-> d.Left, Top |-> d.Top, Bottom |-> d.Bottom]

\* C18: UpdateProportions leaves the Directions object of the caller as it
\* was in vertical-right and exchanges its Left and Right in vertical-left;
\* a second call in vertical-left with the same object acts on the other
\* horizontal edge and leaves the object as the caller first had it.
C18_DirectionsSwappedInPlace ==
    [][ last'.call = "UpdateProportions" =>
          /\ last'.after = IF Name = "vertical-right" THEN last'.d ELSE Flipped(last'.d)
          /\ last'.again =>
                 /\ last'.d = IF Name = "vertical-right" THEN last.d ELSE Flipped(last.d)
                 /\ last'.after = last.d
                 /\ Proportions' = UpdateProportions(Name, Masters, Slaves, Proportions, desk, gap,
                                                     last.c, last'.d, last.cw, last.ch)
      ]_vars

C18_Witness ==
    /\ last.call = "UpdateProportions" /\ last.again /\ Tracked(last.c)
    /\ Name = "vertical-left"
    /\ last.d = Dir({"Left"}) /\ last.after = Dir({"Right"})
    /\ gap = 1 /\ Proportions.MasterSlave # <<Q(3, 5), Q(2, 5)>>

====
